---- MODULE Spec2Model ----
(***************************************************************************)
(* TerminalLifeform: the epoch loop of Simulation.run_simulation and the   *)
(* Entity it drives (src/src/main.py).                                     *)
(*                                                                         *)
(* Numbers.  Every Python float is modelled in fixed point, in thousandths:*)
(* health 100.0 is 100000, metabolism_rate 0.3 is 300, temperature 25.0 is *)
(* 25000, a chance of 0.035 is 35.  age, max_age, min_reproduction_age and *)
(* predator_threshold are the integers of the source.  A product of two    *)
(* reals is divided back to thousandths and truncated.                     *)
(*                                                                         *)
(* Randomness.  random.random() < p is a free boolean when 0 < p < 1,      *)
(* always true when p >= 1 and always false when p <= 0.  random.uniform   *)
(* draws from the listed sample points of its interval, random.sample and  *)
(* random.choice from all their outcomes.                                  *)
(***************************************************************************)
EXTENDS Integers, Sequences, FiniteSets, TLC

\* ---------------------------------------------------------------- bounds
\* Epochs of the longest run (time_steps of the Simulation constructor).
MaxSteps == 2
\* The population never grows beyond this: reproduction stops at the cap.
MaxPop == 3

\* ------------------------------------------------------------ arithmetic
Min(a, b) == IF a <= b THEN a ELSE b
Max(a, b) == IF a >= b THEN a ELSE b
Abs(a) == IF a >= 0 THEN a ELSE -a

\* max(0.0, min(100.0, x)).
ClampVital(x) == Max(0, Min(100000, x))

\* The outcomes of  random.random() < p, the draw being in [0, 1).
Bernoulli(p) == IF p >= 1000 THEN {TRUE} ELSE IF p <= 0 THEN {FALSE} ELSE BOOLEAN

\* The subsets of S with k elements: random.sample(S, k) as a set.
KSubsets(S, k) == {T \in SUBSET S : Cardinality(T) = k}

\* The subsequence of s at the indexes in keep, in order.
RECURSIVE Filter(_, _)
Filter(s, keep) ==
    IF s = <<>> THEN <<>>
    ELSE LET rest == Filter(Tail(s), {i - 1 : i \in keep \ {1}})
         IN  IF 1 \in keep THEN <<Head(s)>> \o rest ELSE rest

\* ---------------------------------------------------------------- Entity
\* The default parameters of Entity.__init__.
DefaultParameters ==
    [ max_age                     |-> 101,
      initial_health              |-> 100000,
      initial_energy              |-> 100000,
      metabolism_rate             |-> 300,
      health_recovery_rate        |-> 1300,
      health_decay_rate           |-> 1500,
      resilience                  |-> 210,
      thriving_threshold_health   |-> 65000,
      thriving_threshold_energy   |-> 60000,
      struggling_threshold_health |-> 33000,
      struggling_threshold_energy |-> 22000,
      reproduction_chance         |-> 1350,
      min_reproduction_age        |-> 13,
      aggression                  |-> 300,
      cooperation                 |-> 100 ]

\* dict.update: the fields of overrides replace those of params, and a
\* name params does not have is added.
Update(params, overrides) ==
    [k \in DOMAIN params \cup DOMAIN overrides |->
        IF k \in DOMAIN overrides THEN overrides[k] ELSE params[k]]

\* Entity.__init__(initial_parameters) with the fresh id given.
NewEntity(id, initial_parameters) ==
    LET parameters == Update(DefaultParameters, initial_parameters)
    IN  [ id         |-> id,
          age        |-> 0,
          health     |-> parameters.initial_health,
          energy     |-> parameters.initial_energy,
          status     |-> "alive",
          parameters |-> parameters ]

\* Entity.is_alive.
is_alive(e) == e.status # "dead"

\* [e for e in self.entities if e.is_alive()], as indexes of the list.
LiveIndexes(ents) == {i \in 1..Len(ents) : is_alive(ents[i])}

\* update_status without the first branch's reset of health and energy.
update_status_NoReset(e) ==
    IF e.health <= 0 \/ e.age >= e.parameters.max_age
    THEN [e EXCEPT !.status = "dead"]
    ELSE IF /\ e.health >= e.parameters.thriving_threshold_health
            /\ e.energy >= e.parameters.thriving_threshold_energy
    THEN [e EXCEPT !.status = "thriving"]
    ELSE IF \/ e.health <= e.parameters.struggling_threshold_health
            \/ e.energy <= e.parameters.struggling_threshold_energy
    THEN [e EXCEPT !.status = "struggling"]
    ELSE [e EXCEPT !.status = "alive"]

\* update_status that tests age > max_age instead of age >= max_age.
update_status_AgeOffByOne(e) ==
    IF e.health <= 0 \/ e.age > e.parameters.max_age
    THEN [e EXCEPT !.status = "dead", !.health = 0, !.energy = 0]
    ELSE IF /\ e.health >= e.parameters.thriving_threshold_health
            /\ e.energy >= e.parameters.thriving_threshold_energy
    THEN [e EXCEPT !.status = "thriving"]
    ELSE IF \/ e.health <= e.parameters.struggling_threshold_health
            \/ e.energy <= e.parameters.struggling_threshold_energy
    THEN [e EXCEPT !.status = "struggling"]
    ELSE [e EXCEPT !.status = "alive"]

\* update_status with the struggling test before the thriving test.
update_status_StrugglingFirst(e) ==
    IF e.health <= 0 \/ e.age >= e.parameters.max_age
    THEN [e EXCEPT !.status = "dead", !.health = 0, !.energy = 0]
    ELSE IF \/ e.health <= e.parameters.struggling_threshold_health
            \/ e.energy <= e.parameters.struggling_threshold_energy
    THEN [e EXCEPT !.status = "struggling"]
    ELSE IF /\ e.health >= e.parameters.thriving_threshold_health
            /\ e.energy >= e.parameters.thriving_threshold_energy
    THEN [e EXCEPT !.status = "thriving"]
    ELSE [e EXCEPT !.status = "alive"]

\* Entity.update_status.
update_status(e) ==
    IF e.health <= 0 \/ e.age >= e.parameters.max_age
    THEN [e EXCEPT !.status = "dead", !.health = 0, !.energy = 0]
    ELSE IF /\ e.health >= e.parameters.thriving_threshold_health
            /\ e.energy >= e.parameters.thriving_threshold_energy
    THEN [e EXCEPT !.status = "thriving"]
    ELSE IF \/ e.health <= e.parameters.struggling_threshold_health
            \/ e.energy <= e.parameters.struggling_threshold_energy
    THEN [e EXCEPT !.status = "struggling"]
    ELSE [e EXCEPT !.status = "alive"]

\* ---------------------------------------------------------------- vitals
\* calculate_energy_change.
calculate_energy_change(e, env) ==
    LET base     == e.parameters.metabolism_rate
        scarcity == IF env.resource_availability < 1000
                    THEN (1000 - env.resource_availability) * 5 ELSE 0
        sickness == IF e.health < 50000
                    THEN (50000 - e.health) \div 10 ELSE 0
    IN  -(base + scarcity + sickness)

\* calculate_health_change.
calculate_health_change(e, env) ==
    LET fromEnergy ==
            IF e.energy > 50000
            THEN ((e.energy - 50000) * e.parameters.health_recovery_rate) \div 10000
            ELSE -(((50000 - e.energy) * e.parameters.health_decay_rate) \div 10000)
        fromTemperature ==
            IF env.temperature < 10000 \/ env.temperature > 35000
            THEN (Abs(env.temperature - 22500) * (1000 - e.parameters.resilience)) \div 10000
            ELSE 0
        fromPollution ==
            IF env.pollution > 100
            THEN (env.pollution * (1000 - e.parameters.resilience)) \div 200
            ELSE 0
    IN  fromEnergy - fromTemperature - fromPollution

\* _process_entity that does not skip dead entities.
process_entity_NoSkip(e, env) ==
    LET aged     == [e EXCEPT !.age = e.age + 1]
        energied == [aged EXCEPT
                       !.energy = ClampVital(aged.energy + calculate_energy_change(aged, env))]
        healthed == [energied EXCEPT
                       !.health = ClampVital(energied.health + calculate_health_change(energied, env))]
    IN  update_status(healthed)

\* _process_entity without the age increment.
process_entity_NoAge(e, env) ==
    IF ~is_alive(e) THEN e
    ELSE
    LET energied == [e EXCEPT
                       !.energy = ClampVital(e.energy + calculate_energy_change(e, env))]
        healthed == [energied EXCEPT
                       !.health = ClampVital(energied.health + calculate_health_change(energied, env))]
    IN  update_status(healthed)

\* _process_entity that clamps neither energy nor health.
process_entity_NoClamp(e, env) ==
    IF ~is_alive(e) THEN e
    ELSE
    LET aged     == [e EXCEPT !.age = e.age + 1]
        energied == [aged EXCEPT
                       !.energy = aged.energy + calculate_energy_change(aged, env)]
        healthed == [energied EXCEPT
                       !.health = energied.health + calculate_health_change(energied, env)]
    IN  update_status(healthed)

\* Simulation._process_entity.
process_entity(e, env) ==
    IF ~is_alive(e) THEN e
    ELSE
    LET aged     == [e EXCEPT !.age = e.age + 1]
        energied == [aged EXCEPT
                       !.energy = ClampVital(aged.energy + calculate_energy_change(aged, env))]
        healthed == [energied EXCEPT
                       !.health = ClampVital(energied.health + calculate_health_change(energied, env))]
    IN  update_status(healthed)

\* ----------------------------------------------------------- environment
\* The default environment factors of Simulation.__init__.
DefaultEnvironment ==
    [ resource_availability      |-> 1000,
      temperature                |-> 25000,
      pollution                  |-> 0,
      event_chance               |-> 35,
      interaction_strength       |-> 500,
      mutation_rate              |-> 130,
      mutation_strength          |-> 50,
      predator_threshold         |-> 15,
      predator_impact_percentage |-> 200 ]

\* The sample point of random.uniform(10, 30), the health a disease takes.
DiseaseLoss == {20000}
\* The sample points of random.uniform(5, 10), the rise of a heatwave.
HeatwaveRise == {5000, 10000}

\* The gradual changes with a temperature that drifts from its current
\* value.
Drift_Accumulates(env, t, total) ==
    [env EXCEPT
       !.resource_availability = Max(100, 1000 - (t * 500) \div total),
       !.temperature           = env.temperature + ((10000 * t) \div total - 5000),
       !.pollution             = Min(800, (t * 300) \div total)]

\* The gradual changes written onto the default environment: the
\* coefficients of the constructor's overrides are lost.
Drift_FromDefaults(env, t, total) ==
    [DefaultEnvironment EXCEPT
       !.resource_availability = Max(100, 1000 - (t * 500) \div total),
       !.temperature           = 25000 + ((10000 * t) \div total - 5000),
       !.pollution             = Min(800, (t * 300) \div total)]

\* The gradual changes of _update_environment at epoch t of total.
Drift(env, t, total) ==
    [env EXCEPT
       !.resource_availability = Max(100, 1000 - (t * 500) \div total),
       !.temperature           = 25000 + ((10000 * t) \div total - 5000),
       !.pollution             = Min(800, (t * 300) \div total)]

\* The disease outbreak on the sampled indexes, entity i losing loss[i].
Outbreak(ents, sample, loss) ==
    [i \in 1..Len(ents) |->
        IF i \in sample /\ is_alive(ents[i])
        THEN [ents[i] EXCEPT !.health = Max(0, ents[i].health - loss[i])]
        ELSE ents[i]]

\* The random events of _update_environment: every (entities, environment)
\* the event draw can leave.
RandomEvents(ents, env) ==
    LET chance == Bernoulli(env.event_chance)
        none   == {[entities |-> ents, env |-> env, event |-> "none"]}
        spike  == {[entities |-> ents,
                    env      |-> [env EXCEPT !.resource_availability =
                                     Min(1000, env.resource_availability + 200)],
                    event    |-> "resource_spike"]}
        disease ==
            {[entities |-> Outbreak(ents, sample, loss), env |-> env,
              event    |-> "disease_outbreak"] :
                 <<sample, loss>> \in
                     UNION {{<<S, l>> : l \in [S -> DiseaseLoss]} :
                               S \in KSubsets(1..Len(ents), Min(Len(ents), 3))}}
        heat   == {[entities |-> ents,
                    env      |-> [env EXCEPT !.temperature =
                                     Min(45000, env.temperature + rise)],
                    event    |-> "heatwave"] : rise \in HeatwaveRise}
    IN  (IF FALSE \in chance THEN none ELSE {})
        \cup (IF TRUE \in chance THEN spike \cup disease \cup heat ELSE {})

\* num_to_remove without the max(1, ...) of the source.
NumToRemove_NoFloorOfOne(alive_count, env) ==
    (alive_count * env.predator_impact_percentage) \div 1000

\* num_to_remove of _update_environment.
NumToRemove(alive_count, env) ==
    Max(1, (alive_count * env.predator_impact_percentage) \div 1000)

\* The target pool that ignores the struggling entities.
PredatorTargets_NoPreference(ents, env) ==
    LET alive == LiveIndexes(ents)
        alive_count == Cardinality(alive)
    IN  KSubsets(alive, Min(NumToRemove(alive_count, env), alive_count))

\* The index sets random.sample can return as the predator's targets.
PredatorTargets(ents, env) ==
    LET alive == LiveIndexes(ents)
        alive_count == Cardinality(alive)
        num_to_remove == NumToRemove(alive_count, env)
        struggling == {i \in alive : ents[i].status = "struggling"}
    IN  IF Cardinality(struggling) >= num_to_remove
        THEN KSubsets(struggling, num_to_remove)
        ELSE KSubsets(alive, Min(num_to_remove, alive_count))

\* alive_count > predator_threshold.
PredatorFires(ents, env) ==
    Cardinality(LiveIndexes(ents)) > env.predator_threshold

\* The predator kills the targets: health 0, then update_status.
Kill(ents, targets) ==
    [i \in 1..Len(ents) |->
        IF i \in targets THEN update_status([ents[i] EXCEPT !.health = 0])
        ELSE ents[i]]

\* The predator of _update_environment: every (entities, targets) it can leave.
Predator(ents, env) ==
    IF PredatorFires(ents, env)
    THEN {[entities |-> Kill(ents, T), targets |-> {ents[i].id : i \in T}] :
             T \in PredatorTargets(ents, env)}
    ELSE {[entities |-> ents, targets |-> {}]}

\* ---------------------------------------------------------- interactions
\* interaction_modifier of _handle_interactions.
InteractionModifier(env, num_alive) ==
    Min(1000, Max(100, (1000 - env.resource_availability) + num_alive * 10))

\* The damage without the interaction_strength factor.
Damage_NoStrength(e, env, modifier) ==
    (e.parameters.aggression * modifier) \div 1000

\* aggression * interaction_strength * interaction_modifier.
Damage(e, env, modifier) ==
    (e.parameters.aggression * env.interaction_strength * modifier) \div 1000000

\* The body of the inner loop with an energy loss equal to the damage.
InteractPair_FullEnergyLoss(ents, i, j, env, modifier) ==
    IF is_alive(ents[i]) /\ is_alive(ents[j])
    THEN LET damage_to_entity2 == Damage(ents[i], env, modifier)
             damage_to_entity1 == Damage(ents[j], env, modifier)
         IN  [ents EXCEPT
                ![j] = [@ EXCEPT
                          !.health = Max(0, @ - damage_to_entity2),
                          !.energy = Max(0, @ - damage_to_entity2)],
                ![i] = [@ EXCEPT
                          !.health = Max(0, @ - damage_to_entity1),
                          !.energy = Max(0, @ - damage_to_entity1)]]
    ELSE ents

\* The body of the inner loop for the pair (entity1, entity2) at i and j.
InteractPair(ents, i, j, env, modifier) ==
    IF is_alive(ents[i]) /\ is_alive(ents[j])
    THEN LET damage_to_entity2 == Damage(ents[i], env, modifier)
             damage_to_entity1 == Damage(ents[j], env, modifier)
         IN  [ents EXCEPT
                ![j] = [@ EXCEPT
                          !.health = Max(0, @ - damage_to_entity2),
                          !.energy = Max(0, @ - damage_to_entity2 \div 2)],
                ![i] = [@ EXCEPT
                          !.health = Max(0, @ - damage_to_entity1),
                          !.energy = Max(0, @ - damage_to_entity1 \div 2)]]
    ELSE ents

\* The inner loop of entity1 at i over its sampled partners.  The sample is
\* taken as a set and applied in list order: the effects of two pairs are
\* subtractions floored at 0, which commute.
RECURSIVE InteractWith(_, _, _, _, _)
InteractWith(ents, i, partners, env, modifier) ==
    IF partners = {} THEN ents
    ELSE LET j == CHOOSE x \in partners : \A y \in partners : x <= y
         IN  InteractWith(InteractPair(ents, i, j, env, modifier),
                          i, partners \ {j}, env, modifier)

\* The pairs (initiator id, partner id) to which the inner loop applied damage.
AppliedPairs(ents, i, partners) ==
    {<<ents[i].id, ents[j].id>> : j \in {x \in partners : is_alive(ents[i]) /\ is_alive(ents[x])}}

\* The applications of damage in the inner loop of entity1 at i, each with
\* the health its two entities had at that moment; the partners are taken
\* in the order of InteractWith.
RECURSIVE InteractHits(_, _, _, _, _)
InteractHits(ents, i, partners, env, modifier) ==
    IF partners = {} THEN {}
    ELSE LET j == CHOOSE x \in partners : \A y \in partners : x <= y
         IN  (IF is_alive(ents[i]) /\ is_alive(ents[j])
              THEN {[entity1 |-> ents[i].id, entity2 |-> ents[j].id,
                     health1 |-> ents[i].health, health2 |-> ents[j].health]}
              ELSE {})
             \cup InteractHits(InteractPair(ents, i, j, env, modifier),
                               i, partners \ {j}, env, modifier)

\* num_interactions without the cap of 3.
NumInteractions_NoCap(num_alive) == num_alive - 1

\* num_interactions of _handle_interactions.
NumInteractions(num_alive) == Min(num_alive - 1, 3)

\* alive_entities of _handle_interactions, as indexes of the list.
AliveEntities(ents) == LiveIndexes(ents)

\* The outer loop from the initiators still to come: every result
\* [entities, pairs, hits] the partner samples can give from the results so
\* far.
RECURSIVE InteractLoop(_, _, _, _, _)
InteractLoop(results, todo, alive, env, modifier) ==
    IF todo = {} THEN results
    ELSE LET i == CHOOSE x \in todo : \A y \in todo : x <= y
             num_interactions == NumInteractions(Cardinality(alive))
             next == UNION {
                 {[entities |-> InteractWith(r.entities, i, partners, env, modifier),
                   pairs    |-> r.pairs \cup AppliedPairs(r.entities, i, partners),
                   hits     |-> r.hits \cup
                                InteractHits(r.entities, i, partners, env, modifier)] :
                      partners \in KSubsets(alive \ {i}, num_interactions)} :
                 r \in results}
         IN  InteractLoop(next, todo \ {i}, alive, env, modifier)

\* Simulation._handle_interactions: every [entities, pairs, hits] it can
\* leave.
handle_interactions(ents, env) ==
    LET alive == AliveEntities(ents)
        num_alive == Cardinality(alive)
    IN  IF num_alive < 2
        THEN {[entities |-> ents, pairs |-> {}, hits |-> {}]}
        ELSE InteractLoop({[entities |-> ents, pairs |-> {}, hits |-> {}]},
                          alive, alive, env,
                          InteractionModifier(env, num_alive))

\* ---------------------------------------------------------- reproduction
MutableParameters ==
    {"max_age", "metabolism_rate", "resilience", "reproduction_chance", "aggression"}

\* The bounds of mutable_parameters in _apply_mutation.
MutationMin ==
    [max_age |-> 50, metabolism_rate |-> 100, resilience |-> 0,
     reproduction_chance |-> 10, aggression |-> 0]
MutationMax ==
    [max_age |-> 200, metabolism_rate |-> 1000, resilience |-> 1000,
     reproduction_chance |-> 150, aggression |-> 1000]

\* round() of x thousandths to an integer, halves to the even neighbour.
RoundThousandths(x) ==
    LET q == x \div 1000
        r == x % 1000
    IN  IF r > 500 THEN q + 1
        ELSE IF r < 500 THEN q
        ELSE IF q % 2 = 0 THEN q ELSE q + 1

\* int(x) of x thousandths: truncation towards zero.
Truncate(x) == IF x >= 0 THEN x \div 1000 ELSE -((-x) \div 1000)

\* The draws of one _apply_mutation call: for each mutable parameter,
\* "keep" (random.random() >= mutation_rate) or a sample point of
\* random.uniform(-mutation_strength, mutation_strength).
MutationDraws(env) ==
    LET chance == Bernoulli(env.mutation_rate)
        one == (IF FALSE \in chance THEN {"keep"} ELSE {})
               \cup (IF TRUE \in chance THEN {"down", "up"} ELSE {})
    IN  [MutableParameters -> one]

\* new_value without max(config["min"], min(config["max"], new_value)).
Mutated_NoClamp(name, original_value, d, env) ==
    LET factor == IF d = "up" THEN env.mutation_strength ELSE -env.mutation_strength
    IN  IF name = "max_age"
        THEN RoundThousandths(original_value * 1000 + original_value * factor)
        ELSE original_value + Truncate(original_value * factor)

\* new_value of _apply_mutation for parameter name under the draw d.
Mutated(name, original_value, d, env) ==
    LET factor == IF d = "up" THEN env.mutation_strength ELSE -env.mutation_strength
        new_value ==
            IF name = "max_age"
            THEN RoundThousandths(original_value * 1000 + original_value * factor)
            ELSE original_value + Truncate(original_value * factor)
    IN  Max(MutationMin[name], Min(MutationMax[name], new_value))

\* Simulation._apply_mutation under the draws.
apply_mutation(params, env, draws) ==
    [k \in DOMAIN params |->
        IF k \in MutableParameters /\ draws[k] # "keep"
        THEN Mutated(k, params[k], draws[k], env)
        ELSE params[k]]

\* The sample points of random.uniform(80, 100) for an offspring's vitals.
OffspringVital == {80000, 100000}

\* The reproduction test without the age condition.
Eligible_NoAge(e) == e.status = "thriving"

\* The first two conditions of the test in _handle_reproduction.
Eligible(e) ==
    /\ e.status = "thriving"
    /\ e.age >= e.parameters.min_reproduction_age

\* The offspring without the override of initial_health and initial_energy.
Offspring_NoVitalsOverride(e, id, env) ==
    {[entity   |-> NewEntity(id, apply_mutation(e.parameters, env, draws)),
      parent   |-> e.id,
      selected |-> {k \in MutableParameters : draws[k] # "keep"}] :
        draws \in MutationDraws(env)}

\* The offspring entity e can produce, with the id given: the new entity,
\* its parent and the parameters the mutation draws selected.
Offspring(e, id, env) ==
    {[entity   |-> NewEntity(id, [apply_mutation(e.parameters, env, draws) EXCEPT
                                    !.initial_health = h, !.initial_energy = g]),
      parent   |-> e.id,
      selected |-> {k \in MutableParameters : draws[k] # "keep"}] :
        <<draws, h, g>> \in MutationDraws(env) \X OffspringVital \X OffspringVital}

\* The parent with a bundle shared with its offspring: what is written
\* to the offspring's parameters is written to the parent's.
ParentAfter_SharedBundle(e, child) == [e EXCEPT !.parameters = child.parameters]

\* The parent after a birth: offspring_params is entity.parameters.copy(),
\* _apply_mutation copies again and Entity() builds a new dict, so nothing
\* written for the child reaches the parent.
ParentAfter(e, child) == e

\* The scan of _handle_reproduction from entity i on: every result
\* [entities, new_entities, parents, births] the draws can give.  A birth
\* needs room under MaxPop.
RECURSIVE ReproductionScan(_, _, _, _, _)
ReproductionScan(results, ents, i, env, next) ==
    IF i > Len(ents) THEN results
    ELSE LET step == UNION {
                 (IF Eligible(ents[i]) /\ Len(ents) + Len(r.new_entities) < MaxPop
                  THEN (IF FALSE \in Bernoulli(ents[i].parameters.reproduction_chance)
                        THEN {r} ELSE {})
                       \cup
                       (IF TRUE \in Bernoulli(ents[i].parameters.reproduction_chance)
                        THEN {[entities     |-> [r.entities EXCEPT
                                                   ![i] = ParentAfter(ents[i], b.entity)],
                               new_entities |-> Append(r.new_entities, b.entity),
                               parents      |-> r.parents \cup {ents[i].id},
                               births       |-> r.births \cup
                                                  {[parent   |-> b.parent,
                                                    child    |-> b.entity.id,
                                                    selected |-> b.selected]}] :
                                 b \in Offspring(ents[i], next + Len(r.new_entities), env)}
                        ELSE {})
                  ELSE {r}) :
                 r \in results}
         IN  ReproductionScan(step, ents, i + 1, env, next)

\* Simulation._handle_reproduction: every [entities, new_entities, parents,
\* births] it can give; self.entities becomes entities extended by
\* new_entities.
handle_reproduction(ents, env, next) ==
    ReproductionScan({[entities |-> ents, new_entities |-> <<>>, parents |-> {},
                       births |-> {}]},
                     ents, 1, env, next)

\* ------------------------------------------------------------ simulation
VARIABLES
    entities,             \* self.entities, a list of Entity records
    environment_factors,  \* self.environment_factors
    current_time,         \* self.current_time
    total_time_steps,     \* self.total_time_steps
    next_t,               \* the next value of range(total_time_steps)
    next_id,              \* the id the next Entity() gets
    pc,                   \* where run_simulation stands
    cull,                 \* _update_environment's locals at the predator step
    pairs,                \* the pairs _handle_interactions applied damage to
    parents,              \* the entities that reproduced in _handle_reproduction
    births,               \* the births of _handle_reproduction and their mutations
    hits,                 \* the applications of damage in _handle_interactions
    died,                 \* the ids of the "died" messages of this epoch
    stages                \* the calls run_simulation has made in this epoch

vars == <<entities, environment_factors, current_time, total_time_steps,
          next_t, next_id, pc, cull, pairs, parents, births, hits, died, stages>>

Stages == {"loop", "env", "vitals", "interact", "classify", "remove",
           "reproduce", "report", "extinct", "complete"}

\* The body of the loop with reproduction called before the dead are
\* removed.
NextStage_ReproduceBeforeRemove(stage) ==
    CASE stage = "env"       -> "vitals"
      [] stage = "vitals"    -> "interact"
      [] stage = "interact"  -> "classify"
      [] stage = "classify"  -> "reproduce"
      [] stage = "reproduce" -> "remove"
      [] stage = "remove"    -> "report"

\* The statement of run_simulation's loop body that follows the one given:
\* _update_environment, the _process_entity loop, _handle_interactions, the
\* update_status loop, the removal of the dead, _handle_reproduction, then
\* the report.
NextStage(stage) ==
    CASE stage = "env"       -> "vitals"
      [] stage = "vitals"    -> "interact"
      [] stage = "interact"  -> "classify"
      [] stage = "classify"  -> "remove"
      [] stage = "remove"    -> "reproduce"
      [] stage = "reproduce" -> "report"

NoCull == [fired |-> FALSE, alive_count |-> 0, struggling |-> {}, targets |-> {}]

\* The initial_parameters of the entities a run starts with: Entity()
\* itself (max_age is its default), a frail entity, a short-lived early
\* breeder, an aggressive one constructed above 100, and a sick one whose
\* mapping has a name Entity does not know.
Kinds ==
    << [max_age |-> 101],
       [initial_health |-> 8000, initial_energy |-> 20000],
       [max_age |-> 2, min_reproduction_age |-> 1, reproduction_chance |-> 110],
       [min_reproduction_age |-> 2, aggression |-> 1000,
        initial_health |-> 150000, initial_energy |-> 120000],
       [initial_health |-> 10000, foraging_efficiency |-> 350] >>

\* The populations a run starts with: at most MaxPop - 1 entities, listed
\* in the order of Kinds.
InitialPopulations ==
    {ks \in UNION {[1..n -> 1..Len(Kinds)] : n \in 0..(MaxPop - 1)} :
        \A i \in 1..(Len(ks) - 1) : ks[i] <= ks[i + 1]}

\* The environment_params overrides of the runs without mutation: a small
\* and a large predator impact, the latter in a mapping with a name
\* Simulation does not know and with a start temperature of its own, and
\* an environment without interaction strength.
EnvironmentOverrides ==
    {[event_chance |-> 80, interaction_strength |-> 800, mutation_rate |-> 0,
      predator_threshold |-> 2, predator_impact_percentage |-> 200],
     [event_chance |-> 80, interaction_strength |-> 800, mutation_rate |-> 0,
      predator_threshold |-> 2, predator_impact_percentage |-> 700,
      predator_chance |-> 200, temperature |-> 40000],
     [event_chance |-> 80, interaction_strength |-> 0, mutation_rate |-> 0,
      predator_threshold |-> 2, predator_impact_percentage |-> 200]}

\* The runs: Simulation(total_time_steps, environment_params) with the
\* entities added.  Every population runs without mutation for no epoch or
\* for MaxSteps epochs; the early breeder alone runs one epoch with the
\* default mutation_rate and no random event.
Runs ==
    {[population |-> ks, environment_params |-> o, total_time_steps |-> n] :
        ks \in InitialPopulations, o \in EnvironmentOverrides, n \in {0, MaxSteps}}
    \cup
    {[population |-> <<3>>, environment_params |-> [event_chance |-> 0],
      total_time_steps |-> 1]}

\* Simulation.__init__ followed by the add_entity calls.
Init ==
    \E run \in Runs :
    /\ entities = [i \in 1..Len(run.population) |->
                      NewEntity(i, Kinds[run.population[i]])]
    /\ next_id = Len(entities) + 1
    /\ environment_factors = Update(DefaultEnvironment, run.environment_params)
    /\ current_time = 0
    /\ total_time_steps = run.total_time_steps
    /\ next_t = 0
    /\ pc = "loop"
    /\ cull = NoCull
    /\ pairs = {}
    /\ parents = {}
    /\ births = {}
    /\ hits = {}
    /\ died = <<>>
    /\ stages = <<>>

\* The loop test with <= in place of <.
LoopContinues_OneMore(t, total) == t <= total

\* for t in range(self.total_time_steps): whether an epoch t remains.
LoopContinues(t, total) == t < total

\* The head of the for loop of run_simulation.
LoopHead ==
    /\ pc = "loop"
    /\ IF LoopContinues(next_t, total_time_steps)
       THEN /\ current_time' = next_t
            /\ next_t' = next_t + 1
            /\ pc' = "env"
       ELSE /\ pc' = "complete"
            /\ UNCHANGED <<current_time, next_t>>
    /\ cull' = NoCull
    /\ pairs' = {}
    /\ parents' = {}
    /\ births' = {}
    /\ hits' = {}
    /\ died' = <<>>
    /\ stages' = <<>>
    /\ UNCHANGED <<entities, environment_factors, total_time_steps, next_id>>

\* self._update_environment(): drift, random event, predator.
UpdateEnvironment ==
    /\ pc = "env"
    /\ \E ev \in RandomEvents(entities,
                              Drift(environment_factors, current_time, total_time_steps)) :
       \E pr \in Predator(ev.entities, ev.env) :
          /\ entities' = pr.entities
          /\ environment_factors' = ev.env
          /\ cull' = [fired       |-> PredatorFires(ev.entities, ev.env),
                      alive_count |-> Cardinality(LiveIndexes(ev.entities)),
                      struggling  |-> {ev.entities[i].id :
                                         i \in {x \in LiveIndexes(ev.entities) :
                                                  ev.entities[x].status = "struggling"}},
                      targets     |-> pr.targets]
    /\ pc' = NextStage(pc)
    /\ stages' = Append(stages, pc)
    /\ UNCHANGED <<current_time, total_time_steps, next_t, next_id, pairs, parents, births,
                   hits, died>>

\* for entity in self.entities: self._process_entity(entity).
ProcessEntities ==
    /\ pc = "vitals"
    /\ entities' = [i \in 1..Len(entities) |->
                       process_entity(entities[i], environment_factors)]
    /\ pc' = NextStage(pc)
    /\ stages' = Append(stages, pc)
    /\ UNCHANGED <<environment_factors, current_time, total_time_steps, next_t,
                   next_id, cull, pairs, parents, births, hits, died>>

\* self._handle_interactions().
HandleInteractions ==
    /\ pc = "interact"
    /\ \E r \in handle_interactions(entities, environment_factors) :
          /\ entities' = r.entities
          /\ pairs' = r.pairs
          /\ hits' = r.hits
    /\ pc' = NextStage(pc)
    /\ stages' = Append(stages, pc)
    /\ UNCHANGED <<environment_factors, current_time, total_time_steps, next_t,
                   next_id, cull, parents, births, died>>

\* The death messages with only the entities that were alive before the
\* loop.
DeathEvents_NewlyDead(ents) ==
    LET dead == Filter(ents, {i \in 1..Len(ents) :
                                 is_alive(ents[i]) /\ ~is_alive(update_status(ents[i]))})
    IN  [k \in 1..Len(dead) |-> dead[k].id]

\* The "died" messages of the loop after the interactions, in the order
\* logged: one for each entity that is not alive after its update_status.
DeathEvents(ents) ==
    LET dead == Filter(ents, {i \in 1..Len(ents) : ~is_alive(update_status(ents[i]))})
    IN  [k \in 1..Len(dead) |-> dead[k].id]

\* for entity in self.entities: entity.update_status(), with the message
\* for those that died.
Classify ==
    /\ pc = "classify"
    /\ entities' = [i \in 1..Len(entities) |-> update_status(entities[i])]
    /\ died' = DeathEvents(entities)
    /\ pc' = NextStage(pc)
    /\ stages' = Append(stages, pc)
    /\ UNCHANGED <<environment_factors, current_time, total_time_steps, next_t,
                   next_id, cull, pairs, parents, births, hits>>

\* [entity for entity in self.entities if entity.is_alive()].
Survivors(ents) == Filter(ents, LiveIndexes(ents))

\* self.entities = [the entities that are alive].
RemoveDead ==
    /\ pc = "remove"
    /\ entities' = Survivors(entities)
    /\ pc' = NextStage(pc)
    /\ stages' = Append(stages, pc)
    /\ UNCHANGED <<environment_factors, current_time, total_time_steps, next_t,
                   next_id, cull, pairs, parents, births, hits, died>>

\* self._handle_reproduction().
HandleReproduction ==
    /\ pc = "reproduce"
    /\ \E r \in handle_reproduction(entities, environment_factors, next_id) :
          /\ entities' = r.entities \o r.new_entities
          /\ next_id' = next_id + Len(r.new_entities)
          /\ parents' = r.parents
          /\ births' = r.births
    /\ pc' = NextStage(pc)
    /\ stages' = Append(stages, pc)
    /\ UNCHANGED <<environment_factors, current_time, total_time_steps, next_t,
                   cull, pairs, hits, died>>

\* The early exit that is never taken.
Extinct_Never(ents) == FALSE

\* alive_count == 0 at the end of the epoch.
Extinct(ents) == Len(ents) = 0

\* The population report and the early exit of run_simulation.
Report ==
    /\ pc = "report"
    /\ pc' = IF Extinct(entities) THEN "extinct" ELSE "loop"
    /\ UNCHANGED <<entities, environment_factors, current_time, total_time_steps,
                   next_t, next_id, cull, pairs, parents, births, hits, died, stages>>

Next ==
    \/ LoopHead
    \/ UpdateEnvironment
    \/ ProcessEntities
    \/ HandleInteractions
    \/ Classify
    \/ RemoveDead
    \/ HandleReproduction
    \/ Report

Spec == Init /\ [][Next]_vars

\* The runs checked for termination: those without mutation that start
\* with at most one entity.
FairInit == Init /\ Len(entities) <= 1 /\ environment_factors.mutation_rate = 0

\* run_simulation is one sequential loop: a step that can be taken is taken.
FairSpec == FairInit /\ [][Next]_vars /\ WF_vars(Next)

\* The inputs of update_status at the classification of an epoch: one
\* entity of age 1 to max_age = 3, with the default thresholds or with
\* thriving thresholds below the struggling ones, any status left by the
\* earlier stages (dead only with the vitals update_status gave it) and
\* vitals on both sides of every threshold.
ClassifierInit ==
    /\ \E bundle \in {[max_age |-> 3],
                       [max_age |-> 3, thriving_threshold_health |-> 30000,
                        thriving_threshold_energy |-> 20000]} :
       \E h \in {0, 20000, 32000, 50000, 70000} :
       \E g \in {0, 21000, 50000, 70000} :
       \E a \in 1..3 :
       \E st \in {"alive", "thriving", "struggling", "dead"} :
          /\ st = "dead" => (h = 0 /\ g = 0)
          /\ entities = << [NewEntity(1, bundle) EXCEPT
                               !.health = h, !.energy = g, !.age = a, !.status = st] >>
    /\ next_id = 2
    /\ environment_factors = DefaultEnvironment
    /\ current_time = 0
    /\ total_time_steps = 1
    /\ next_t = 1
    /\ pc = "classify"
    /\ cull = NoCull
    /\ pairs = {}
    /\ parents = {}
    /\ births = {}
    /\ hits = {}
    /\ died = <<>>
    /\ stages = <<"env", "vitals", "interact">>

\* The classification loop of run_simulation applied to those inputs.
ClassifierSpec == ClassifierInit /\ [][Classify]_vars

\* The inputs of _handle_interactions in the second of two epochs: up to
\* five entities of age 1, each one strong and fully aggressive, or weak
\* with health 0.05, or dead, with the status update_status gives them.
InteractionInit ==
    /\ \E pop \in UNION {[1..n -> {"strong", "weak", "dead"}] : n \in 0..5} :
          entities = [i \in 1..Len(pop) |->
              update_status(
                  CASE pop[i] = "strong" ->
                         [NewEntity(i, [aggression |-> 1000]) EXCEPT
                             !.age = 1, !.health = 90000, !.energy = 90000]
                    [] pop[i] = "weak" ->
                         [NewEntity(i, <<>>) EXCEPT
                             !.age = 1, !.health = 50, !.energy = 30000]
                    [] pop[i] = "dead" ->
                         [NewEntity(i, <<>>) EXCEPT
                             !.age = 1, !.health = 0, !.energy = 0])]
    /\ next_id = Len(entities) + 1
    /\ environment_factors =
          Drift(Update(DefaultEnvironment, [interaction_strength |-> 800]), 1, 2)
    /\ current_time = 1
    /\ total_time_steps = 2
    /\ next_t = 2
    /\ pc = "interact"
    /\ cull = NoCull
    /\ pairs = {}
    /\ parents = {}
    /\ births = {}
    /\ hits = {}
    /\ died = <<>>
    /\ stages = <<"env", "vitals">>

\* _handle_interactions applied to those inputs.
InteractionSpec == InteractionInit /\ [][HandleInteractions]_vars

\* The inputs of _apply_mutation in _handle_reproduction: one thriving
\* parent that reproduces for certain, with the default bundle (whose
\* reproduction_chance is above the mutation bounds) or with a bundle at or
\* outside the bounds on every side, under the default mutation_rate and a
\* mutation_strength of 0.05 or 0.5.
MutationInit ==
    /\ \E bundle \in {[min_reproduction_age |-> 1],
                       [min_reproduction_age |-> 1, max_age |-> 2,
                        metabolism_rate |-> 50, resilience |-> 1000,
                        reproduction_chance |-> 1000, aggression |-> 0]} :
          entities = << update_status([NewEntity(1, bundle) EXCEPT
                                          !.age = 1, !.health = 90000,
                                          !.energy = 90000]) >>
    /\ \E strength \in {50, 500} :
          environment_factors =
              Drift(Update(DefaultEnvironment, [mutation_strength |-> strength]), 0, 1)
    /\ next_id = 2
    /\ current_time = 0
    /\ total_time_steps = 1
    /\ next_t = 1
    /\ pc = "reproduce"
    /\ cull = NoCull
    /\ pairs = {}
    /\ parents = {}
    /\ births = {}
    /\ hits = {}
    /\ died = <<>>
    /\ stages = <<"env", "vitals", "interact", "classify", "remove">>

\* _handle_reproduction applied to those inputs.
MutationSpec == MutationInit /\ [][HandleReproduction]_vars

\* ---------------------------------------------------------------- claims
\* An epoch has run to its end: the state run_simulation reports.
EpochDone ==
    \/ pc \in {"report", "extinct"}
    \/ pc \in {"loop", "complete"} /\ next_t > 0

Ids(ents) == {ents[i].id : i \in 1..Len(ents)}
DeadIds(ents) == {ents[i].id : i \in (1..Len(ents)) \ LiveIndexes(ents)}
LiveCount(ents) == Cardinality(LiveIndexes(ents))
Terminal == {"extinct", "complete"}

\* C1: after every epoch every entity of the population has
\* 0 <= health <= 100 and 0 <= energy <= 100.
C1_VitalsInRangeAfterEpoch ==
    EpochDone =>
        \A i \in 1..Len(entities) :
            /\ 0 <= entities[i].health /\ entities[i].health <= 100000
            /\ 0 <= entities[i].energy /\ entities[i].energy <= 100000

\* An epoch with culling, interactions and a birth ends with an entity that
\* was constructed above 100 in range.
C1_Witness ==
    /\ pc = "report"
    /\ cull.targets # {} /\ pairs # {} /\ parents # {}
    /\ \E i \in 1..Len(entities) :
          /\ entities[i].parameters.initial_health > 100000
          /\ entities[i].health <= 100000

\* C2: right after update_status has run on an entity, its status is dead
\* exactly when its health and its energy are both 0.  Stated for the
\* entities Classify has just classified, and for update_status applied to
\* every entity the run reaches.
C2_DeadIffVitalsZero ==
    /\ pc = "remove" =>
          \A i \in 1..Len(entities) :
              (entities[i].status = "dead")
                  <=> (entities[i].health = 0 /\ entities[i].energy = 0)
    /\ \A i \in 1..Len(entities) :
          LET u == update_status(entities[i])
          IN  (u.status = "dead") <=> (u.health = 0 /\ u.energy = 0)

\* The classification has left a dead entity next to a live one.
C2_Witness ==
    /\ pc = "remove"
    /\ \E i, j \in 1..Len(entities) :
          /\ entities[i].status = "dead" /\ entities[i].age > 0
          /\ entities[j].status # "dead" /\ entities[j].energy > 0

\* C3: the population holds no dead entity when an epoch begins nor when
\* reproduction runs; the vitals stage and the interaction stage leave
\* every dead entity as it is, no applied pair names a dead entity, and no
\* dead entity is a parent.
C3_DeadNeverProcessed ==
    /\ [](pc \in {"loop", "env", "reproduce", "report"} => DeadIds(entities) = {})
    /\ [][ /\ pc \in {"vitals", "interact"} =>
                \A i \in 1..Len(entities) :
                    ~is_alive(entities[i]) => entities'[i] = entities[i]
           /\ pc = "interact" =>
                \A pr \in pairs' : pr[1] \notin DeadIds(entities)
                                   /\ pr[2] \notin DeadIds(entities)
           /\ pc = "reproduce" => parents' \cap DeadIds(entities) = {}
         ]_vars

\* An entity the predator killed has sat through the vitals stage and an
\* interaction stage in which the others exchanged damage.
C3_Witness ==
    /\ pc = "classify"
    /\ cull.targets # {}
    /\ cull.targets \subseteq DeadIds(entities)
    /\ pairs # {}

\* C4: in the vitals stage the age of an entity that is alive grows by
\* exactly 1; in every other step, and for a dead entity in every step, the
\* age stays as it is.  No age exceeds the number of epochs begun.
C4_AgeStep ==
    /\ [](\A i \in 1..Len(entities) : entities[i].age <= next_t)
    /\ [][\A i \in 1..Len(entities) : \A j \in 1..Len(entities') :
            entities'[j].id = entities[i].id =>
                entities'[j].age =
                    IF pc = "vitals" /\ is_alive(entities[i])
                    THEN entities[i].age + 1
                    ELSE entities[i].age
         ]_vars

\* After the vitals stage of the second epoch: an entity the predator killed
\* has kept its age, another has aged twice.
C4_Witness ==
    /\ pc = "interact"
    /\ \E i, j \in 1..Len(entities) :
          /\ entities[i].id \in cull.targets /\ entities[i].age = 1
          /\ is_alive(entities[j]) /\ entities[j].age = 2

\* C5: the vitals stage leaves dead every entity that entered it with
\* age = max_age - 1, the removal leaves no dead entity, and after every
\* epoch no entity has age >= max_age.
C5_MaxAge ==
    /\ [](EpochDone =>
            \A i \in 1..Len(entities) :
                entities[i].age < entities[i].parameters.max_age)
    /\ [][ /\ pc = "vitals" =>
                \A i \in 1..Len(entities) :
                    entities[i].age = entities[i].parameters.max_age - 1
                        => entities'[i].status = "dead"
           /\ pc = "remove" => DeadIds(entities') = {}
         ]_vars

\* An entity has died of age alone: dead at max_age with the predator not
\* involved.
C5_Witness ==
    /\ pc = "interact"
    /\ \E i \in 1..Len(entities) :
          /\ entities[i].age = entities[i].parameters.max_age
          /\ entities[i].status = "dead"
          /\ entities[i].id \notin cull.targets

\* C6: every entity that reproduced in the epoch is thriving and at least
\* min_reproduction_age old.
C6_OnlyThrivingOfAgeReproduce ==
    pc = "report" =>
        \A i \in 1..Len(entities) :
            entities[i].id \in parents =>
                /\ entities[i].status = "thriving"
                /\ entities[i].age >= entities[i].parameters.min_reproduction_age

\* One entity reproduced while a thriving one below its min_reproduction_age
\* did not.
C6_Witness ==
    /\ pc = "report"
    /\ parents # {}
    /\ \E i \in 1..Len(entities) :
          /\ entities[i].id \notin parents
          /\ entities[i].status = "thriving"
          /\ entities[i].age < entities[i].parameters.min_reproduction_age

\* C7: after the environment update, the entities the predator killed are
\* max(1, floor(alive_count * predator_impact_percentage)) distinct entities
\* with health 0 when alive_count exceeds predator_threshold, and none
\* otherwise.
C7_PredatorCount ==
    pc = "vitals" =>
        IF cull.alive_count > environment_factors.predator_threshold
        THEN /\ Cardinality(DeadIds(entities)) =
                   Max(1, (cull.alive_count
                           * environment_factors.predator_impact_percentage) \div 1000)
             /\ DeadIds(entities) = cull.targets
             /\ \A i \in 1..Len(entities) :
                   entities[i].status = "dead" => entities[i].health = 0
        ELSE DeadIds(entities) = {}

\* The predator has killed two of three: the floor, not the minimum of one.
C7_Witness ==
    /\ pc = "vitals"
    /\ cull.alive_count = 3
    /\ Cardinality(DeadIds(entities)) = 2

\* C8 as claimed: when fewer entities are struggling than the removal
\* count, every struggling entity is a target.
C8_StrugglingAlwaysTargeted ==
    (pc = "vitals" /\ cull.targets # {}) =>
        IF Cardinality(cull.struggling) >= Cardinality(cull.targets)
        THEN cull.targets \subseteq cull.struggling
        ELSE cull.struggling \subseteq cull.targets

\* C8 as amended: when at least as many live entities are struggling as the
\* removal count, every target is struggling; otherwise the targets are
\* that many entities of the live population, struggling or not.
C8_StrugglingPreferredIfEnough ==
    (pc = "vitals" /\ cull.targets # {}) =>
        LET num_to_remove ==
                Max(1, (cull.alive_count
                        * environment_factors.predator_impact_percentage) \div 1000)
        IN  /\ Cardinality(cull.targets) = num_to_remove
            /\ cull.targets \subseteq Ids(entities)
            /\ Cardinality(cull.struggling) >= num_to_remove
                   => cull.targets \subseteq cull.struggling

\* With one to remove among three live entities, the only struggling one
\* was the target.
C8_Witness ==
    /\ pc = "vitals"
    /\ cull.alive_count = 3
    /\ Cardinality(cull.struggling) = 1
    /\ cull.targets = cull.struggling

\* C9: every run ends, extinct or complete; extinct with an empty
\* population, complete with every epoch consumed; no run begins more than
\* total_time_steps epochs.
C9_Terminates ==
    /\ <>(pc \in Terminal)
    /\ [](next_t <= total_time_steps)
    /\ [](pc = "extinct" => Len(entities) = 0)
    /\ [](pc = "complete" => next_t = total_time_steps)

\* A run has consumed all its epochs with entities left.
C9_Witness ==
    /\ pc = "complete"
    /\ next_t = MaxSteps
    /\ Len(entities) > 1

\* C10: once an epoch has begun and no entity is live, no further epoch
\* begins and no entity is live again; the run is extinct only with an
\* empty population, and takes no step from there; a non-empty population
\* at the end of an epoch goes on to the next epoch while one remains.
C10_StopsWhenExtinct ==
    /\ [](pc = "extinct" => Len(entities) = 0)
    /\ [][ /\ (next_t > 0 /\ LiveCount(entities) = 0) =>
                /\ next_t' = next_t
                /\ current_time' = current_time
                /\ LiveCount(entities') = 0
           /\ pc # "extinct"
           /\ (pc = "report" /\ Len(entities) > 0) => pc' = "loop"
           /\ (pc = "report" /\ Len(entities) = 0) => pc' = "extinct"
           /\ (pc = "loop" /\ next_t < total_time_steps) => pc' = "env"
         ]_vars

\* A run that had entities has stopped with epochs left.
C10_Witness ==
    /\ pc = "extinct"
    /\ next_id > 1
    /\ next_t < total_time_steps

\* C11: within every epoch the stages run once each in the order
\* environment update, vitals, interactions, classification, removal of
\* the dead, reproduction: what has run so far is always the beginning of
\* that list, the stage about to run is the next one of it, and the epoch
\* is reported only when all six have run.
C11_StagesInOrder ==
    LET order == <<"env", "vitals", "interact", "classify", "remove", "reproduce">>
    IN  /\ Len(stages) <= Len(order)
        /\ stages = SubSeq(order, 1, Len(stages))
        /\ pc \in {"report", "extinct"} => stages = order
        /\ pc \in {order[i] : i \in 1..Len(order)} => pc = order[Len(stages) + 1]

\* The second epoch of a run with a population has run its six stages.
C11_Witness ==
    /\ pc = "report"
    /\ next_t = 2
    /\ Len(entities) > 1
    /\ stages = <<"env", "vitals", "interact", "classify", "remove", "reproduce">>

\* C12: no step of a run changes the parameters of an entity that exists
\* before and after it; in particular a birth, which copies the parent's
\* bundle, mutates the copy and overrides its initial vitals, leaves the
\* parent's bundle as it was.
C12_ParametersNeverChange ==
    [][\A i \in 1..Len(entities) : \A j \in 1..Len(entities') :
          entities'[j].id = entities[i].id =>
              entities'[j].parameters = entities[i].parameters]_vars

\* A parent of the epoch stands with its own max_age and initial_health
\* beside its newborn, whose max_age was mutated and whose initial_health
\* was drawn.
C12_Witness ==
    /\ pc = "report"
    /\ \E i, j \in 1..Len(entities) :
          /\ entities[i].id \in parents
          /\ entities[j].age = 0
          /\ entities[i].parameters.max_age = 2
          /\ entities[j].parameters.max_age # 2
          /\ entities[i].parameters.initial_health = 100000
          /\ entities[j].parameters.initial_health = 80000

\* C13: a construction whose override mapping has an unknown parameter
\* name fails, so no run starts with one: once an epoch has begun, the
\* environment and every entity bundle hold known names only.
C13_NoRunWithUnknownName ==
    next_t > 0 =>
        /\ DOMAIN environment_factors \subseteq DOMAIN DefaultEnvironment
        /\ \A i \in 1..Len(entities) :
              DOMAIN entities[i].parameters \subseteq DOMAIN DefaultParameters

\* C14: the parent of an offspring pays the reproduction cost: across
\* _handle_reproduction, in which an entity has at most one offspring, the
\* health of every entity that reproduced goes down by 3.0, not below 0.
C14_ParentPaysCost ==
    [][pc = "reproduce" =>
          \A i \in 1..Len(entities) :
              entities[i].id \in parents' =>
                  entities'[i].health = Max(0, entities[i].health - 3000)]_vars

\* C15: vitals are in range from construction on: in every state of a
\* run, before the first vitals update too, every entity of the
\* population has 0 <= health <= 100 and 0 <= energy <= 100.
C15_VitalsInRangeFromConstruction ==
    \A i \in 1..Len(entities) :
        /\ 0 <= entities[i].health /\ entities[i].health <= 100000
        /\ 0 <= entities[i].energy /\ entities[i].energy <= 100000

\* C16: with interaction_strength = 0, _handle_interactions leaves the
\* health and the energy of every entity as they were, whatever the
\* population and the aggression values.
C16_NoStrengthNoDamage ==
    [][(pc = "interact" /\ environment_factors.interaction_strength = 0) =>
          /\ Len(entities') = Len(entities)
          /\ \A i \in 1..Len(entities) :
                /\ entities'[i].health = entities[i].health
                /\ entities'[i].energy = entities[i].energy]_vars

\* Interactions were resolved without strength for a pair whose initiator
\* has aggression 1.0 and whose partner has health and energy to lose.
C16_Witness ==
    /\ pc = "classify"
    /\ environment_factors.interaction_strength = 0
    /\ \E i, j \in 1..Len(entities) :
          /\ <<entities[i].id, entities[j].id>> \in pairs
          /\ entities[i].parameters.aggression = 1000
          /\ entities[j].health > 0 /\ entities[j].energy > 0

\* C18: update_status gives the first status whose test passes, in the
\* order dead (health <= 0 or age >= max_age), thriving (health and energy
\* at or above the thriving thresholds), struggling (health or energy at
\* or below the struggling thresholds), alive; the status the entity had
\* before plays no part.
C18_FirstMatchingStatus ==
    [][pc = "classify" =>
          \A i \in 1..Len(entities) :
              LET e == entities[i]
                  p == e.parameters
                  deadTest       == e.health <= 0 \/ e.age >= p.max_age
                  thrivingTest   == /\ e.health >= p.thriving_threshold_health
                                    /\ e.energy >= p.thriving_threshold_energy
                  strugglingTest == \/ e.health <= p.struggling_threshold_health
                                    \/ e.energy <= p.struggling_threshold_energy
                  status == entities'[i].status
              IN  /\ status = "dead" <=> deadTest
                  /\ status = "thriving" <=> (~deadTest /\ thrivingTest)
                  /\ status = "struggling" <=>
                         (~deadTest /\ ~thrivingTest /\ strugglingTest)
                  /\ status = "alive" <=>
                         (~deadTest /\ ~thrivingTest /\ ~strugglingTest)]_vars

\* An entity that passes the thriving test and the struggling test has
\* been classified thriving.
C18_Witness ==
    /\ pc = "remove"
    /\ \E i \in 1..Len(entities) :
          /\ entities[i].status = "thriving"
          /\ entities[i].health >= entities[i].parameters.thriving_threshold_health
          /\ entities[i].energy >= entities[i].parameters.thriving_threshold_energy
          /\ entities[i].health <= entities[i].parameters.struggling_threshold_health

\* C19: at the end of every epoch the status of every entity of the
\* population, the offspring of that epoch included, is what update_status
\* gives for its current health, energy, age and parameters.
C19_StatusIsClassified ==
    EpochDone =>
        \A i \in 1..Len(entities) :
            entities[i].status = update_status(entities[i]).status

\* C20: an entity whose health has been reduced to 0 never has health
\* above 0 again, and it is not in the population at the end of the epoch.
C20_ZeroHealthIsFinal ==
    [][/\ \A i \in 1..Len(entities) : \A j \in 1..Len(entities') :
             (entities'[j].id = entities[i].id /\ entities[i].health = 0) =>
                 entities'[j].health = 0
       /\ pc' = "report" =>
             \A j \in 1..Len(entities') : entities'[j].health > 0]_vars

\* C21: damage is applied to a pair only while both its entities have
\* health above 0: an entity whose health has reached 0 in the stage deals
\* and receives no further damage in it.
C21_NoDamageAtZeroHealth ==
    \A h \in hits : h.health1 > 0 /\ h.health2 > 0

\* C22: _handle_reproduction leaves the scanned population as it was and
\* puts the newborns behind it, one for each parent; the parents are
\* entities that were thriving and of age before the scan, never a
\* newborn; each newborn has a new id, age 0, and health and energy equal
\* to its own initial_health and initial_energy, each in [80, 100].
C22_OffspringAfterScan ==
    [][pc = "reproduce" =>
          LET n == Len(entities)
          IN  /\ Len(entities') >= n
              /\ SubSeq(entities', 1, n) = entities
              /\ parents' \subseteq
                     {entities[i].id : i \in {x \in 1..n :
                         /\ entities[x].status = "thriving"
                         /\ entities[x].age >=
                                entities[x].parameters.min_reproduction_age}}
              /\ Len(entities') - n = Cardinality(parents')
              /\ \A j \in (n + 1)..Len(entities') :
                    LET c == entities'[j]
                    IN  /\ c.id \notin Ids(entities)
                        /\ c.id \notin parents'
                        /\ c.age = 0
                        /\ c.health = c.parameters.initial_health
                        /\ c.energy = c.parameters.initial_energy
                        /\ 80000 <= c.health /\ c.health <= 100000
                        /\ 80000 <= c.energy /\ c.energy <= 100000]_vars

\* A parent whose own initial_health is above 100 was scanned before an
\* entity that did not reproduce, and its newborn stands last.
C22_Witness ==
    /\ pc = "report"
    /\ Len(entities) = 3
    /\ entities[1].id \in parents
    /\ entities[1].parameters.initial_health > 100000
    /\ entities[2].id \notin parents /\ entities[2].age > 0
    /\ entities[3].age = 0
    /\ entities[3].health = 80000 /\ entities[3].energy = 100000

\* C23: from the environment update of epoch t on, with f = t / total,
\* pollution is min(0.8, 0.3f), resource_availability is max(0.1, 1 - 0.5f)
\* or that plus 0.2 capped at 1.0, temperature is 25 + 10(f - 0.5) or that
\* plus 5 to 10 capped at 45, and not both carry an event; so 0.1 <=
\* resource_availability <= 1.0, temperature <= 45 and 0 <= pollution <= 0.8.
\* Nothing of the previous epoch or of the constructor's overrides remains.
C23_EnvironmentIsDriftPlusEvent ==
    (next_t > 0 /\ pc # "env") =>
        LET t == current_time
            total == total_time_steps
            resource == IF 1000 - (500 * t) \div total < 100
                        THEN 100 ELSE 1000 - (500 * t) \div total
            temperature == 25000 + (10000 * t) \div total - 5000
            pollution == IF (300 * t) \div total > 800
                         THEN 800 ELSE (300 * t) \div total
            env == environment_factors
        IN  /\ env.pollution = pollution
            /\ \/ env.resource_availability = resource
               \/ env.resource_availability =
                     (IF resource + 200 > 1000 THEN 1000 ELSE resource + 200)
            /\ \/ env.temperature = temperature
               \/ /\ env.temperature <= 45000
                  /\ env.temperature <= temperature + 10000
                  /\ env.temperature >= temperature + 5000 \/ env.temperature = 45000
            /\ env.resource_availability = resource \/ env.temperature = temperature
            /\ 100 <= env.resource_availability /\ env.resource_availability <= 1000
            /\ env.temperature <= 45000
            /\ 0 <= env.pollution /\ env.pollution <= 800

\* The second epoch of a run constructed with temperature 40.0 has a
\* heatwave on the drift value 25.0.
C23_Witness ==
    /\ pc = "vitals"
    /\ current_time = 1 /\ total_time_steps = 2
    /\ "predator_chance" \in DOMAIN environment_factors
    /\ environment_factors.temperature = 35000
    /\ environment_factors.resource_availability = 750
    /\ environment_factors.pollution = 150

\* C24: no step of a run changes event_chance, interaction_strength,
\* mutation_rate, mutation_strength, predator_threshold or
\* predator_impact_percentage: they keep the values the constructor gave
\* them, the defaults merged with the overrides.
C24_CoefficientsNeverChange ==
    [][\A k \in {"event_chance", "interaction_strength", "mutation_rate",
                 "mutation_strength", "predator_threshold",
                 "predator_impact_percentage"} :
          environment_factors'[k] = environment_factors[k]]_vars

\* The last epoch of a run has been reported with the overridden
\* coefficients and the default mutation_strength, after the three
\* drifting values moved.
C24_Witness ==
    /\ pc = "report"
    /\ next_t = total_time_steps /\ next_t > 1
    /\ environment_factors.resource_availability < 1000
    /\ environment_factors.event_chance = 80
    /\ environment_factors.interaction_strength = 0
    /\ environment_factors.mutation_rate = 0
    /\ environment_factors.mutation_strength = 50
    /\ environment_factors.predator_threshold = 2
    /\ environment_factors.predator_impact_percentage = 200

\* C25: in the bundle a birth gets from _apply_mutation, every mutable
\* parameter that was selected for mutation lies within its bounds
\* (max_age 50 to 200, metabolism_rate 0.1 to 1.0, resilience 0 to 1,
\* reproduction_chance 0.01 to 0.15, aggression 0 to 1), and every other
\* parameter has the parent's value; initial_health and initial_energy,
\* which the caller overrides afterwards, are left aside.
C25_MutationWithinBounds ==
    [][pc = "reproduce" =>
          \A b \in births' :
          \A i \in 1..Len(entities) : \A j \in 1..Len(entities') :
              (entities[i].id = b.parent /\ entities'[j].id = b.child) =>
                  LET parent == entities[i].parameters
                      child  == entities'[j].parameters
                  IN  /\ DOMAIN child = DOMAIN parent
                      /\ b.selected \subseteq
                            {"max_age", "metabolism_rate", "resilience",
                             "reproduction_chance", "aggression"}
                      /\ "max_age" \in b.selected =>
                            (50 <= child.max_age /\ child.max_age <= 200)
                      /\ "metabolism_rate" \in b.selected =>
                            (100 <= child.metabolism_rate
                             /\ child.metabolism_rate <= 1000)
                      /\ "resilience" \in b.selected =>
                            (0 <= child.resilience /\ child.resilience <= 1000)
                      /\ "reproduction_chance" \in b.selected =>
                            (10 <= child.reproduction_chance
                             /\ child.reproduction_chance <= 150)
                      /\ "aggression" \in b.selected =>
                            (0 <= child.aggression /\ child.aggression <= 1000)
                      /\ \A k \in DOMAIN parent \ {"initial_health", "initial_energy"} :
                            k \notin b.selected => child[k] = parent[k]]_vars

\* A child of the default bundle whose reproduction_chance was selected
\* and cut to 0.15, whose aggression was selected and moved, and whose
\* max_age was not selected.
C25_Witness ==
    /\ pc = "report"
    /\ \E b \in births : \E j \in 1..Len(entities) :
          /\ entities[j].id = b.child
          /\ b.selected = {"reproduction_chance", "aggression"}
          /\ entities[1].parameters.reproduction_chance = 1350
          /\ entities[j].parameters.reproduction_chance = 150
          /\ entities[j].parameters.aggression = 450
          /\ entities[j].parameters.max_age = 101

\* C26: with fewer than 2 live entities _handle_interactions does nothing;
\* otherwise every live entity initiates with exactly min(live - 1, 3)
\* distinct partners, all of them live at the start of the stage and none
\* of them the initiator, and only live entities initiate.
C26_PartnersPerInitiator ==
    [][pc = "interact" =>
          LET live == {i \in 1..Len(entities) : entities[i].status # "dead"}
              live_count == Cardinality(live)
              liveIds == {entities[i].id : i \in live}
              partnersOf(id) == {p[2] : p \in {q \in pairs' : q[1] = id}}
          IN  IF live_count < 2
              THEN pairs' = {} /\ hits' = {} /\ entities' = entities
              ELSE /\ \A p \in pairs' : p[1] \in liveIds
                   /\ \A id \in liveIds :
                         /\ Cardinality(partnersOf(id)) =
                               (IF live_count - 1 < 3 THEN live_count - 1 ELSE 3)
                         /\ partnersOf(id) \subseteq liveIds \ {id}]_vars

\* The stage ran on five live entities: the first initiated with three of
\* its four candidates.
C26_Witness ==
    /\ pc = "classify"
    /\ Len(entities) = 5
    /\ \A i \in 1..5 : entities[i].status # "dead"
    /\ Cardinality({p \in pairs : p[1] = 1}) = 3
    /\ <<1, 5>> \notin pairs

\* C27: _handle_interactions removes no entity and changes no id, status,
\* age or parameters; health and energy only go down; and where neither
\* was cut at 0, the energy lost is half the health lost, to the thousandth
\* that halving each damage can drop.
C27_InteractionFrame ==
    [][pc = "interact" =>
          /\ Len(entities') = Len(entities)
          /\ \A i \in 1..Len(entities) :
                LET before == entities[i]
                    after  == entities'[i]
                    health_lost == before.health - after.health
                    energy_lost == before.energy - after.energy
                    applied == Cardinality({p \in pairs' :
                                   p[1] = before.id \/ p[2] = before.id})
                IN  /\ after.id = before.id
                    /\ after.status = before.status
                    /\ after.age = before.age
                    /\ after.parameters = before.parameters
                    /\ health_lost >= 0
                    /\ energy_lost >= 0
                    /\ (after.health > 0 /\ after.energy > 0) =>
                          /\ health_lost - 2 * energy_lost >= 0
                          /\ health_lost - 2 * energy_lost <= applied]_vars

\* Two strong entities have each dealt the other 0.216 twice: each lost
\* 0.432 of health and 0.216 of energy and is still thriving.
C27_Witness ==
    /\ pc = "classify"
    /\ Len(entities) = 2
    /\ pairs = {<<1, 2>>, <<2, 1>>}
    /\ \A i \in 1..2 :
          /\ entities[i].health = 90000 - 432
          /\ entities[i].energy = 90000 - 216
          /\ entities[i].status = "thriving"

\* C28: the "died" messages of an epoch are written by the loop after the
\* interactions only, one for each entity that is dead after it (those the
\* predator killed earlier in the epoch included) and none for an entity
\* that is alive; the removal that follows takes exactly the entities with
\* a message out of the population; no other step takes an entity out, and
\* an id that has left never comes back, so no entity has a second message.
C28_OneDeathEventPerRemoval ==
    [][LET count(id, log) == Cardinality({k \in 1..Len(log) : log[k] = id})
       IN  /\ pc = "classify" =>
                 \A i \in 1..Len(entities') :
                     count(entities'[i].id, died') =
                         (IF entities'[i].status = "dead" THEN 1 ELSE 0)
           /\ pc = "classify" =>
                 \A k \in 1..Len(died') : died'[k] \in Ids(entities')
           /\ pc = "remove" =>
                 Ids(entities) \ Ids(entities') = {died[k] : k \in 1..Len(died)}
           /\ pc # "remove" => Ids(entities) \subseteq Ids(entities')
           /\ pc \notin {"classify", "loop"} => died' = died
           /\ \A id \in Ids(entities') \ Ids(entities) : id >= next_id]_vars

\* The dead of an epoch have been removed: one the predator killed and one
\* that died otherwise, each with its one message.
C28_Witness ==
    /\ pc = "reproduce"
    /\ Len(died) = 2 /\ died[1] # died[2]
    /\ died[1] \in cull.targets
    /\ died[2] \notin cull.targets
    /\ \A i \in 1..Len(entities) : entities[i].id \notin {died[1], died[2]}

====
